---- MODULE Spec2Model ----
(***************************************************************************)
(* Arc<T>: an atomically reference-counted shared-ownership pointer.       *)
(*                                                                         *)
(* A record (ArcData<T>) is a heap allocation holding the atomic counter   *)
(* `refs` and the payload `data`.  A handle (Arc<T>) is a pointer to a     *)
(* record.  Every atomic access of the code (fetch_add, fetch_sub, load)   *)
(* is one step of the model, so operations of different threads interleave *)
(* between the atomic access and the code that follows it.                 *)
(*                                                                         *)
(* The borrow rules of the language are the guards of the operations:      *)
(* clone, deref and ref_count take &self and need the handle not to be     *)
(* exclusively borrowed; get_mut and drop take &mut self and need that no  *)
(* other operation holds the handle.                                       *)
(***************************************************************************)
EXTENDS Naturals, FiniteSets

\* ------------------------------------------------------------- bounds
\* the threads of the program
NumThreads == 2
\* the records (calls of Arc::new) of one run
MaxRecs == 2
\* usize::MAX for a usize scaled down to a few values: the largest counter value
USIZE_MAX == 6

\* the handles of one run: as many as the overflow guard lets exist at once on
\* one record (usize::MAX / 3 + 1), and one for the clone that trips the guard
MaxHandles == USIZE_MAX \div 3 + 2

Threads == 1..NumThreads
Handles == 1..MaxHandles
Records == 1..MaxRecs
\* the payloads given to Arc::new, and the values stored through get_mut
\* (get_mut's example: new(0), then *x = 42)
NewValues == {0, 7}
MutValues == {0, 42}
Values == NewValues \cup MutValues
Modulus == USIZE_MAX + 1

VARIABLES
    alloc,      \* alloc[r]: "Unalloc", "Live" (Box leaked by new), "Freed" (Box::from_raw dropped)
    refs,       \* refs[r]: ArcData::refs
    data,       \* data[r]: ArcData::data, the payload
    destroyed,  \* destroyed[r]: how many times the payload's destructor ran
    written,    \* written[r]: the value the program last gave to the payload (to new, or through get_mut)
    handle,     \* handle[h]: [st, rec]: an Arc value and the record its pointer names
    th,         \* th[t]: [pc, h, val]: the operation thread t is inside, and what it observed
    aborted,    \* std::process::abort() was called
    unseen,     \* unseen[t]: the handles through which the payload was accessed in a way that does not happen-before thread t's current point
    unpub,      \* the handles through which the payload was accessed in a way no Release operation on the counter has published
    readgap     \* readgap[t]: what of unpub the counter value read by t's current operation does not carry

\* the happens-before bookkeeping (it never influences the other variables)
hbvars == <<unseen, unpub, readgap>>

vars == <<alloc, refs, data, destroyed, written, handle, th, aborted, unseen, unpub, readgap>>

Idle == [pc |-> "idle", h |-> 0, val |-> 0]
NoHandle == [st |-> "none", rec |-> 0]

PCs == {"idle", "clone", "drop", "get_mut", "mut", "ref"}

TypeOK ==
    /\ alloc \in [Records -> {"Unalloc", "Live", "Freed"}]
    /\ refs \in [Records -> 0..USIZE_MAX]
    /\ data \in [Records -> Values]
    /\ destroyed \in [Records -> Nat]
    /\ written \in [Records -> Values]
    /\ handle \in [Handles -> [st : {"none", "live", "gone"}, rec : 0..MaxRecs]]
    /\ th \in [Threads -> [pc : PCs, h : 0..MaxHandles, val : (0..USIZE_MAX) \cup Values]]
    /\ aborted \in BOOLEAN
    /\ unseen \in [Threads -> SUBSET Handles]
    /\ unpub \in SUBSET Handles
    /\ readgap \in [Threads -> SUBSET Handles]

\* ------------------------------------------------------------- helpers

\* (a counter that starts at 0)
ArcDataNew_Zero(v) == [refs |-> 0, data |-> v]
\* ArcData::new: the counter starts at 1
ArcDataNew(v) == [refs |-> 1, data |-> v]

\* Arc::data / Arc::data_mut: the record a handle's pointer names
RecOf(h) == handle[h].rec

\* the handles that exist and point to r
LiveHandles(r) == {h \in Handles : handle[h].st = "live" /\ handle[h].rec = r}

\* the threads inside an operation on handle h
Users(h) == {t \in Threads : th[t].pc # "idle" /\ th[t].h = h}

\* &self can be taken: the handle exists and is not borrowed exclusively
SharedOk(h) ==
    /\ handle[h].st = "live"
    /\ \A t \in Users(h) : th[t].pc \notin {"get_mut", "mut", "drop"}

\* &mut self (or self by value) can be taken: nothing else holds the handle
ExclusiveOk(h) ==
    /\ handle[h].st = "live"
    /\ Users(h) = {}

\* what an atomic access of refs can observe: the counter of a live record;
\* the memory of a freed record holds anything
Observed(r) == IF alloc[r] = "Live" THEN {refs[r]} ELSE 0..USIZE_MAX

\* (a fetch_add that adds 2)
WrappingAdd_Two(x) == (x + 2) % Modulus
\* usize arithmetic of fetch_add(1) and fetch_sub(1)
WrappingAdd(x) == (x + 1) % Modulus
\* (a drop that subtracts nothing)
WrappingSub_Zero(x) == x
WrappingSub(x) == (x + Modulus - 1) % Modulus

\* (a guard at usize::MAX / 2 instead of usize::MAX / 3)
\* (a clone without the overflow guard)
CloneOverflow_Never(pre) == FALSE
CloneOverflow_Half(pre) == pre > USIZE_MAX \div 2
\* clone's guard: the pre-increment value is above usize::MAX / 3
CloneOverflow(pre) == pre > USIZE_MAX \div 3

\* (fetch_sub's result taken for the new value: the test never succeeds)
DropIsLast_NewValue(pre) == pre = 0
\* (a test that also succeeds while another handle is left)
DropIsLast_AtMostTwo(pre) == pre <= 2
\* (a test that succeeds on every drop)
DropIsLast_Always(pre) == pre >= 1
\* drop's test: the pre-decrement value was 1
DropIsLast(pre) == pre = 1

\* (a test that succeeds whenever the record is referenced at all)
GetMutUnique_AtLeastOne(cnt) == cnt >= 1
\* (a test that lets one other handle exist)
GetMutUnique_AtMostTwo(cnt) == cnt <= 2
\* get_mut's test: the loaded value is 1
GetMutUnique(cnt) == cnt = 1

\* Deref::deref: the payload of the handle's record
DerefValue(h) == data[RecOf(h)]

\* Arc::ref_count: a relaxed load of the counter
RefCountValue(h) == refs[RecOf(h)]

\* slots and records are taken in order; a slot or record is never reused
FreshHandles == {h \in Handles : handle[h].st = "none"}
FreshRecs == {r \in Records : alloc[r] = "Unalloc"}
NextHandle == CHOOSE h \in FreshHandles : \A g \in FreshHandles : h <= g
NextRec == CHOOSE r \in FreshRecs : \A q \in FreshRecs : r <= q

\* handle slots not yet promised to a clone in flight
SpareHandles == Cardinality(FreshHandles) - Cardinality({t \in Threads : th[t].pc = "clone"})

\* ------------------------------------------------------------- Init
Init ==
    /\ alloc = [r \in Records |-> "Unalloc"]
    /\ refs = [r \in Records |-> 0]
    /\ data = [r \in Records |-> 0]
    /\ destroyed = [r \in Records |-> 0]
    /\ written = [r \in Records |-> 0]
    /\ handle = [h \in Handles |-> NoHandle]
    /\ th = [t \in Threads |-> Idle]
    /\ aborted = FALSE
    /\ unseen = [t \in Threads |-> {}]
    /\ unpub = {}
    /\ readgap = [t \in Threads |-> {}]

\* ------------------------------------------------------------- Arc::new
New(t, v, hn) ==
    /\ ~aborted
    /\ th[t] = Idle
    /\ FreshRecs # {}
    /\ SpareHandles > 0
    /\ handle[hn].st = "none"
    /\ LET r == NextRec
           d == ArcDataNew(v)
       IN /\ alloc' = [alloc EXCEPT ![r] = "Live"]
          /\ refs' = [refs EXCEPT ![r] = d.refs]
          /\ data' = [data EXCEPT ![r] = d.data]
          /\ written' = [written EXCEPT ![r] = v]
          /\ handle' = [handle EXCEPT ![hn] = [st |-> "live", rec |-> r]]
    /\ UNCHANGED <<destroyed, th, aborted>>

\* ------------------------------------------------------------- Clone::clone
\* refs.fetch_add(1, Relaxed)
CloneFetchAdd(t, h) ==
    /\ ~aborted
    /\ th[t] = Idle
    /\ SharedOk(h)
    /\ SpareHandles > 0
    /\ \E pre \in Observed(RecOf(h)) :
          /\ refs' = [refs EXCEPT ![RecOf(h)] = WrappingAdd(pre)]
          /\ th' = [th EXCEPT ![t] = [pc |-> "clone", h |-> h, val |-> pre]]
    /\ UNCHANGED <<alloc, data, destroyed, written, handle, aborted>>

\* refs.fetch_add(1, Relaxed) of a clone that observes more than usize::MAX / 3
\* while every handle slot is taken or promised: it will make no handle
CloneFetchAddTripping(t, h) ==
    /\ ~aborted
    /\ th[t] = Idle
    /\ SharedOk(h)
    /\ SpareHandles <= 0
    /\ \E pre \in Observed(RecOf(h)) :
          /\ CloneOverflow(pre)
          /\ refs' = [refs EXCEPT ![RecOf(h)] = WrappingAdd(pre)]
          /\ th' = [th EXCEPT ![t] = [pc |-> "clone", h |-> h, val |-> pre]]
    /\ UNCHANGED <<alloc, data, destroyed, written, handle, aborted>>

\* ... > usize::MAX / 3 : std::process::abort()
CloneAbort(t) ==
    /\ ~aborted
    /\ th[t].pc = "clone"
    /\ CloneOverflow(th[t].val)
    /\ aborted' = TRUE
    /\ UNCHANGED <<alloc, refs, data, destroyed, written, handle, th>>

\* Self { data: self.data }
CloneReturn(t, hn) ==
    /\ ~aborted
    /\ th[t].pc = "clone"
    /\ ~CloneOverflow(th[t].val)
    /\ handle[hn].st = "none"
    /\ handle' = [handle EXCEPT ![hn] = [st |-> "live", rec |-> RecOf(th[t].h)]]
    /\ th' = [th EXCEPT ![t] = Idle]
    /\ UNCHANGED <<alloc, refs, data, destroyed, written, aborted>>

\* ------------------------------------------------------------- Drop::drop
\* refs.fetch_sub(1, Release): from here on the handle is gone
DropFetchSub(t, h) ==
    /\ ~aborted
    /\ th[t] = Idle
    /\ ExclusiveOk(h)
    /\ \E pre \in Observed(RecOf(h)) :
          /\ refs' = [refs EXCEPT ![RecOf(h)] = WrappingSub(pre)]
          /\ th' = [th EXCEPT ![t] = [pc |-> "drop", h |-> h, val |-> pre]]
    /\ handle' = [handle EXCEPT ![h].st = "gone"]
    /\ UNCHANGED <<alloc, data, destroyed, written, aborted>>

\* == 1 : fence(Acquire); drop(Box::from_raw(..)): the payload's destructor, then the free
DropFree(t) ==
    /\ ~aborted
    /\ th[t].pc = "drop"
    /\ DropIsLast(th[t].val)
    /\ LET r == RecOf(th[t].h)
       IN /\ alloc' = [alloc EXCEPT ![r] = "Freed"]
          /\ destroyed' = [destroyed EXCEPT ![r] = @ + 1]
    /\ th' = [th EXCEPT ![t] = Idle]
    /\ UNCHANGED <<refs, data, written, handle, aborted>>

\* (a drop that does not return while another thread is inside an operation on
\* the same record)
DropReturn_Wait(t) ==
    /\ ~aborted
    /\ th[t].pc = "drop"
    /\ ~DropIsLast(th[t].val)
    /\ \A u \in {x \in Threads \ {t} : th[x].pc # "idle"} : RecOf(th[u].h) # RecOf(th[t].h)
    /\ th' = [th EXCEPT ![t] = Idle]
    /\ UNCHANGED <<alloc, refs, data, destroyed, written, handle, aborted>>

\* otherwise drop returns without touching the record again
DropReturn(t) ==
    /\ ~aborted
    /\ th[t].pc = "drop"
    /\ ~DropIsLast(th[t].val)
    /\ th' = [th EXCEPT ![t] = Idle]
    /\ UNCHANGED <<alloc, refs, data, destroyed, written, handle, aborted>>

\* ------------------------------------------------------------- Arc::get_mut
\* (a get_mut that counts itself in while it looks: fetch_add instead of load)
GetMutLoad_Counting(t, h) ==
    /\ ~aborted
    /\ th[t] = Idle
    /\ ExclusiveOk(h)
    /\ \E cnt \in Observed(RecOf(h)) :
          /\ refs' = [refs EXCEPT ![RecOf(h)] = WrappingAdd(cnt)]
          /\ th' = [th EXCEPT ![t] = [pc |-> "get_mut", h |-> h, val |-> cnt]]
    /\ UNCHANGED <<alloc, data, destroyed, written, handle, aborted>>

\* refs.load(Relaxed), under &mut Self
GetMutLoad(t, h) ==
    /\ ~aborted
    /\ th[t] = Idle
    /\ ExclusiveOk(h)
    /\ \E cnt \in Observed(RecOf(h)) :
          th' = [th EXCEPT ![t] = [pc |-> "get_mut", h |-> h, val |-> cnt]]
    /\ UNCHANGED <<alloc, refs, data, destroyed, written, handle, aborted>>

\* == 1 : fence(Acquire); Some(&mut this.data_mut().data)
GetMutSome(t) ==
    /\ ~aborted
    /\ th[t].pc = "get_mut"
    /\ GetMutUnique(th[t].val)
    /\ th' = [th EXCEPT ![t] = [pc |-> "mut", h |-> th[t].h, val |-> 0]]
    /\ UNCHANGED <<alloc, refs, data, destroyed, written, handle, aborted>>

\* else None
GetMutNone(t) ==
    /\ ~aborted
    /\ th[t].pc = "get_mut"
    /\ ~GetMutUnique(th[t].val)
    /\ th' = [th EXCEPT ![t] = Idle]
    /\ UNCHANGED <<alloc, refs, data, destroyed, written, handle, aborted>>

\* *x = v through the &mut T that get_mut returned
WriteMut(t, v) ==
    /\ ~aborted
    /\ th[t].pc = "mut"
    /\ data' = [data EXCEPT ![RecOf(th[t].h)] = v]
    /\ written' = [written EXCEPT ![RecOf(th[t].h)] = v]
    /\ UNCHANGED <<alloc, refs, destroyed, handle, th, aborted>>

\* the &mut T goes out of scope
ReleaseMut(t) ==
    /\ ~aborted
    /\ th[t].pc = "mut"
    /\ th' = [th EXCEPT ![t] = Idle]
    /\ UNCHANGED <<alloc, refs, data, destroyed, written, handle, aborted>>

\* ------------------------------------------------------------- Deref::deref
\* &self.data().data : the thread holds a &T and has read the payload through it
Deref(t, h) ==
    /\ ~aborted
    /\ th[t] = Idle
    /\ SharedOk(h)
    /\ \E v \in (IF alloc[RecOf(h)] = "Live" THEN {DerefValue(h)} ELSE Values) :
          th' = [th EXCEPT ![t] = [pc |-> "ref", h |-> h, val |-> v]]
    /\ UNCHANGED <<alloc, refs, data, destroyed, written, handle, aborted>>

\* the &T goes out of scope
ReleaseRef(t) ==
    /\ ~aborted
    /\ th[t].pc = "ref"
    /\ th' = [th EXCEPT ![t] = Idle]
    /\ UNCHANGED <<alloc, refs, data, destroyed, written, handle, aborted>>

\* ------------------------------------------------------------- Arc::ref_count
\* refs.load(Relaxed): the caller gets RefCountValue(h); nothing is written and
\* no borrow outlives the call
RefCount(t, h) ==
    /\ ~aborted
    /\ th[t] = Idle
    /\ SharedOk(h)
    /\ RefCountValue(h) \in 0..USIZE_MAX
    /\ UNCHANGED vars

\* ------------------------------------------------------------- the program
\* the operations, in any interleaving (the happens-before bookkeeping is switched off)
Next ==
    \/ \E t \in Threads, v \in NewValues : New(t, v, NextHandle) /\ UNCHANGED hbvars
    \/ \E t \in Threads, h \in Handles : CloneFetchAdd(t, h) /\ UNCHANGED hbvars
    \/ \E t \in Threads : CloneAbort(t) /\ UNCHANGED hbvars
    \/ \E t \in Threads : CloneReturn(t, NextHandle) /\ UNCHANGED hbvars
    \/ \E t \in Threads, h \in Handles : DropFetchSub(t, h) /\ UNCHANGED hbvars
    \/ \E t \in Threads : DropFree(t) /\ UNCHANGED hbvars
    \/ \E t \in Threads : DropReturn(t) /\ UNCHANGED hbvars
    \/ \E t \in Threads, h \in Handles : GetMutLoad(t, h) /\ UNCHANGED hbvars
    \/ \E t \in Threads : GetMutSome(t) /\ UNCHANGED hbvars
    \/ \E t \in Threads : GetMutNone(t) /\ UNCHANGED hbvars
    \/ \E t \in Threads, v \in MutValues : WriteMut(t, v) /\ UNCHANGED hbvars
    \/ \E t \in Threads : ReleaseMut(t) /\ UNCHANGED hbvars
    \/ \E t \in Threads, h \in Handles : Deref(t, h) /\ UNCHANGED hbvars
    \/ \E t \in Threads : ReleaseRef(t) /\ UNCHANGED hbvars
    \/ \E t \in Threads, h \in Handles : RefCount(t, h) /\ UNCHANGED hbvars

Spec == Init /\ [][Next]_vars

\* a thread that is inside an operation runs on: the code after the atomic access
\* waits for nothing
Fairness ==
    \A t \in Threads :
        /\ WF_vars(CloneAbort(t) /\ UNCHANGED hbvars)
        /\ WF_vars(CloneReturn(t, NextHandle) /\ UNCHANGED hbvars)
        /\ WF_vars(DropFree(t) /\ UNCHANGED hbvars)
        /\ WF_vars(DropReturn(t) /\ UNCHANGED hbvars)
        /\ WF_vars(GetMutSome(t) /\ UNCHANGED hbvars)
        /\ WF_vars(GetMutNone(t) /\ UNCHANGED hbvars)

FairSpec == Spec /\ Fairness

\* ------------------------------------------------------------- properties

\* the threads between the atomic access and the end of a clone or drop on r
MidCloneOrDrop(r) == {t \in Threads : th[t].pc \in {"clone", "drop"} /\ RecOf(th[t].h) = r}
\* the handles to r that were dropped
GoneHandles(r) == {h \in Handles : handle[h].st = "gone" /\ handle[h].rec = r}
AllIdle == \A t \in Threads : th[t] = Idle

\* C1: whenever no clone or drop on a record is mid-flight, the record's counter,
\* and so the value ref_count returns through any of its handles, is the number
\* of live handles that point to the record.
C1_RefsCountLiveHandles ==
    \A r \in Records :
        (alloc[r] = "Live" /\ MidCloneOrDrop(r) = {}) =>
            /\ refs[r] = Cardinality(LiveHandles(r))
            /\ \A h \in LiveHandles(r) : RefCountValue(h) = Cardinality(LiveHandles(r))

\* a record that was cloned twice and lost one handle, with nothing in flight
C1_Witness ==
    \E r \in Records :
        /\ alloc[r] = "Live" /\ AllIdle
        /\ Cardinality(LiveHandles(r)) = 2
        /\ GoneHandles(r) # {}
        /\ refs[r] = 2

\* the step of a thread that frees record r
FreesRecord(r) ==
    \E t \in Threads :
        /\ th[t].pc = "drop" /\ RecOf(th[t].h) = r
        /\ th[t].val = 1
        /\ th'[t] = Idle

\* C2: a record is deallocated at most once, only by the drop whose fetch_sub
\* observed 1 (the counter is 0 from then on), and a freed record never becomes
\* live again: its counter is not raised and it is not freed a second time.
C2_FreedOnceByLastDrop ==
    /\ [](\A r \in Records :
            /\ destroyed[r] <= 1
            /\ (alloc[r] = "Freed") <=> (destroyed[r] = 1))
    /\ [][\A r \in Records :
            (alloc'[r] = "Freed" /\ alloc[r] # "Freed") =>
                (alloc[r] = "Live" /\ refs[r] = 0 /\ FreesRecord(r))]_vars
    /\ [][\A r \in Records :
            alloc[r] = "Freed" =>
                (alloc'[r] = "Freed" /\ refs'[r] = refs[r] /\ destroyed'[r] = destroyed[r])]_vars

\* a record freed once, after three handles to it were dropped
C2_Witness ==
    \E r \in Records :
        /\ alloc[r] = "Freed" /\ destroyed[r] = 1 /\ refs[r] = 0
        /\ Cardinality(GoneHandles(r)) >= 3
        /\ AllIdle

\* the threads that will still touch record r through a handle: every operation in
\* flight, but for a drop that observed more than 1
Accessing(r) ==
    {t \in Threads : /\ th[t].pc # "idle"
                     /\ RecOf(th[t].h) = r
                     /\ (th[t].pc = "drop" => th[t].val = 1)}

\* C3: no use after free.  A record with a live handle is not freed, so every
\* access through a handle finds the record allocated; an operation that will
\* still touch the record has it allocated; and a drop that observed more than 1
\* ends without touching the record.
C3_NoUseAfterFree ==
    /\ [](\A h \in Handles : handle[h].st = "live" => alloc[RecOf(h)] = "Live")
    /\ [](\A r \in Records : Accessing(r) # {} => alloc[r] = "Live")
    /\ [][\A t \in Threads :
            (th[t].pc = "drop" /\ th[t].val > 1 /\ th'[t] # th[t]) =>
                /\ th'[t] = Idle
                /\ UNCHANGED <<alloc, refs, data, destroyed>>]_vars

\* a drop that observed 2 is still in flight after another thread's drop observed
\* 1 and freed the record
C3_Witness ==
    \E r \in Records, t \in Threads :
        /\ th[t].pc = "drop" /\ RecOf(th[t].h) = r /\ th[t].val = 2
        /\ alloc[r] = "Freed"

\* C4: get_mut, called with sole access to its handle, returns Some exactly when,
\* at the instant of its load, one handle to the record exists; it returns None
\* when more than one exists, whatever clones and drops of other handles are in
\* flight.  (The load observes 1 exactly when one handle exists; the call then
\* returns Some exactly when its load observed 1, and one handle is still all
\* there is when it does.)
C4_GetMutSomeIffUnique ==
    /\ [][\A t \in Threads :
            (th[t].pc = "idle" /\ th'[t].pc = "get_mut") =>
                ((th'[t].val = 1) <=> (Cardinality(LiveHandles(RecOf(th'[t].h))) = 1))]_vars
    /\ [][\A t \in Threads :
            (th[t].pc = "get_mut" /\ th'[t] # th[t]) =>
                IF th[t].val = 1
                THEN th'[t] = [pc |-> "mut", h |-> th[t].h, val |-> 0]
                ELSE th'[t] = Idle]_vars
    /\ [](\A t \in Threads :
            th[t].pc = "get_mut" =>
                ((th[t].val = 1) => (Cardinality(LiveHandles(RecOf(th[t].h))) = 1)))

\* get_mut returned Some while the drop of the record's other handle, which
\* observed 2, is still in flight on another thread
C4_Witness ==
    \E t, u \in Threads :
        /\ th[t].pc = "mut"
        /\ th[u].pc = "drop" /\ th[u].val = 2
        /\ RecOf(th[u].h) = RecOf(th[t].h)

\* thread t holds, or is about to be handed, the &mut T of get_mut
HoldsMut(t) == th[t].pc = "mut" \/ (th[t].pc = "get_mut" /\ th[t].val = 1)

\* C5: while the mutable reference of get_mut is held (from the load of 1 on), the
\* record's counter is 1, the holder's handle is the only handle to the record,
\* and no other thread is inside an operation that reads or writes the record.
C5_ExclusiveWhileMutHeld ==
    \A t \in Threads :
        HoldsMut(t) =>
            LET r == RecOf(th[t].h)
            IN /\ alloc[r] = "Live"
               /\ refs[r] = 1
               /\ LiveHandles(r) = {th[t].h}
               /\ Accessing(r) = {t}

\* a record that was shared, is unique again, and holds a value stored through
\* the mutable reference that is still held
C5_Witness ==
    \E t \in Threads :
        /\ th[t].pc = "mut"
        /\ GoneHandles(RecOf(th[t].h)) # {}
        /\ data[RecOf(th[t].h)] = 42

\* C6: the payload every handle reads is the value last given to the record (to
\* new, or through get_mut's reference), also through a shared reference taken
\* earlier and still held: no write is lost.
C6_ReadsSeeLastWrite ==
    /\ \A r \in Records : alloc[r] = "Live" =>
            \A h \in LiveHandles(r) : DerefValue(h) = written[r]
    /\ \A t \in Threads : th[t].pc = "ref" => th[t].val = written[RecOf(th[t].h)]

\* 42 was stored through get_mut while the record had one handle; the record was
\* cloned afterwards, and a thread reads 42 through the clone
C6_Witness ==
    \E t \in Threads :
        LET r == RecOf(th[t].h)
        IN /\ th[t].pc = "ref" /\ th[t].val = 42
           /\ GoneHandles(r) = {}
           /\ Cardinality(LiveHandles(r)) = 2
           /\ \A h \in LiveHandles(r) : h <= th[t].h

\* the threads inside an operation on a handle to r
Inside(r) == {t \in Threads : th[t].pc # "idle" /\ RecOf(th[t].h) = r}

\* C7: when the threads that cloned a record's initial handle have dropped their
\* clones, the initial handle is dropped too and every thread has finished, the
\* payload was destroyed exactly once: not zero times, and at no time more than
\* once.
C7_DestroyedExactlyOnce ==
    \A r \in Records :
        /\ destroyed[r] <= 1
        /\ (alloc[r] # "Unalloc" /\ LiveHandles(r) = {} /\ Inside(r) = {}) =>
                (destroyed[r] = 1 /\ alloc[r] = "Freed")

\* the initial handle of record 1 and one clone per thread were made and dropped,
\* and every thread has finished
C7_Witness ==
    /\ Cardinality(GoneHandles(1)) = 1 + NumThreads
    /\ handle[1].st = "gone"
    /\ AllIdle /\ ~aborted
    /\ destroyed[1] = 1

\* C8: under fair scheduling a record whose handles have all been dropped is
\* eventually freed (as long as the process lives: abort ends it); the drop that
\* frees it is the drop of the last handle to disappear, every other drop still
\* in flight having decremented before it; and no record is freed while a
\* handle to it is left.
C8_LastDropFrees ==
    /\ \A r \in Records :
            (alloc[r] = "Live" /\ LiveHandles(r) = {}) ~> (alloc[r] = "Freed" \/ aborted)
    /\ [][\A r \in Records :
            (alloc'[r] = "Freed" /\ alloc[r] # "Freed") =>
                /\ LiveHandles(r) = {}
                /\ \E t \in Threads :
                      /\ th[t].pc = "drop" /\ RecOf(th[t].h) = r /\ th'[t] = Idle
                      /\ \A u \in Inside(r) \ {t} : th[u].pc = "drop" /\ th[u].val > th[t].val]_vars
    /\ [](\A r \in Records : alloc[r] = "Freed" => LiveHandles(r) = {})

\* the last handle of a record has done its fetch_sub and the record is not freed
\* yet, while an earlier drop of the same record is still in flight
C8_Witness ==
    \E r \in Records, t, u \in Threads :
        /\ alloc[r] = "Live" /\ LiveHandles(r) = {}
        /\ th[t].pc = "drop" /\ RecOf(th[t].h) = r /\ th[t].val = 1
        /\ th[u].pc = "drop" /\ RecOf(th[u].h) = r /\ th[u].val = 2

\* C9: Arc::new makes a record that was not allocated before live, with counter 1
\* and the given payload; the handle it returns is the record's only handle,
\* ref_count through it is 1 and deref through it is the given payload; no other
\* record changes.
C9_NewMakesFreshRecord ==
    [][\A r \in Records :
        (alloc[r] = "Unalloc" /\ alloc'[r] # "Unalloc") =>
            /\ alloc'[r] = "Live"
            /\ refs'[r] = 1
            /\ data'[r] = written'[r]
            /\ \E h \in Handles :
                  /\ handle[h].st = "none"
                  /\ handle'[h] = [st |-> "live", rec |-> r]
                  /\ LiveHandles(r)' = {h}
                  /\ RefCountValue(h)' = 1
                  /\ DerefValue(h)' = written'[r]
            /\ \A q \in Records \ {r} :
                  alloc'[q] = alloc[q] /\ refs'[q] = refs[q] /\ data'[q] = data[q]]_vars

\* a second record, just made with payload 7, next to a first one with two handles
C9_Witness ==
    /\ alloc[1] = "Live" /\ refs[1] = 2
    /\ alloc[2] = "Live" /\ refs[2] = 1 /\ data[2] = 7
    /\ Cardinality(LiveHandles(2)) = 1 /\ GoneHandles(2) = {}

\* C10: a clone whose fetch_add observed more than usize::MAX / 3 does not return:
\* its only continuation aborts the process and no handle is made; a clone that
\* observed at most usize::MAX / 3 returns a new handle to the same record and
\* does not abort; nothing happens after the abort.
C10_CloneOverflowAborts ==
    /\ [][\A t \in Threads :
            (th[t].pc = "clone" /\ th'[t] # th[t]) =>
                /\ th[t].val <= USIZE_MAX \div 3
                /\ th'[t] = Idle
                /\ ~aborted'
                /\ \E hn \in Handles :
                      /\ handle[hn].st = "none"
                      /\ handle' = [handle EXCEPT ![hn] = [st |-> "live", rec |-> RecOf(th[t].h)]]]_vars
    /\ [][(aborted' /\ ~aborted) =>
            /\ \E t \in Threads : th[t].pc = "clone" /\ th[t].val > USIZE_MAX \div 3
            /\ UNCHANGED <<alloc, refs, data, destroyed, handle, th>>]_vars
    /\ [](\A t \in Threads :
            (th[t].pc = "clone" /\ ~aborted) =>
                IF th[t].val > USIZE_MAX \div 3
                THEN ENABLED (Next /\ aborted') /\ ~ENABLED (Next /\ th'[t] # th[t])
                ELSE ENABLED (Next /\ th'[t] = Idle))
    /\ [][~aborted]_vars

\* the process aborted on a clone that observed usize::MAX / 3 + 1
C10_Witness ==
    /\ aborted
    /\ \E t \in Threads : th[t].pc = "clone" /\ th[t].val = USIZE_MAX \div 3 + 1

\* the handles ever made on record r (live or dropped)
MadeHandles(r) == {h \in Handles : handle[h].st # "none" /\ handle[h].rec = r}

\* C11: the sequential scenario.  On a record with exactly three handles h0, h1,
\* h2: while all three are live and no operation is in progress ref_count(h0) is
\* 3; once h1 and h2 are dropped and their drops have finished ref_count(h0) is 1
\* and a get_mut(h0) started now loads 1; a get_mut(h0) that loaded 1 can only
\* return Some; its holder can write 42, and once 42 is written deref(h0) yields
\* 42; once h0 is dropped too the payload has been destroyed exactly once and the
\* record is freed.
C11_Scenario ==
    [](\A r \in Records :
          Cardinality(MadeHandles(r)) = 3 =>
              /\ (LiveHandles(r) = MadeHandles(r) /\ Inside(r) = {}) =>
                    \A h0 \in MadeHandles(r) : RefCountValue(h0) = 3
              /\ \A h0 \in MadeHandles(r) :
                    (LiveHandles(r) = {h0}) =>
                        /\ (Inside(r) = {}) =>
                              /\ RefCountValue(h0) = 1
                              /\ written[r] = 42 => DerefValue(h0) = 42
                              /\ \A t \in Threads :
                                    (th[t] = Idle /\ ~aborted) =>
                                        /\ ENABLED (GetMutLoad(t, h0) /\ th'[t].val = 1)
                                        /\ ~ENABLED (GetMutLoad(t, h0) /\ th'[t].val # 1)
                        /\ \A t \in Inside(r) :
                              /\ (th[t].pc = "get_mut" /\ th[t].h = h0 /\ th[t].val = 1) =>
                                    /\ ~aborted => ENABLED GetMutSome(t)
                                    /\ ~ENABLED GetMutNone(t)
                              /\ (th[t].pc = "mut" /\ ~aborted) =>
                                    ENABLED (WriteMut(t, 42) /\ DerefValue(h0)' = 42)
                              /\ (th[t].pc = "ref" /\ written[r] = 42) => th[t].val = 42
              /\ (LiveHandles(r) = {} /\ Inside(r) = {}) =>
                    /\ destroyed[r] = 1
                    /\ alloc[r] = "Freed")

\* the end of the scenario: three handles were made on a record, 42 was written
\* to its payload, and after the third drop the record is freed
C11_Witness ==
    \E r \in Records :
        /\ Cardinality(MadeHandles(r)) = 3
        /\ LiveHandles(r) = {}
        /\ AllIdle
        /\ data[r] = 42
        /\ destroyed[r] = 1
        /\ alloc[r] = "Freed"

\* a thread between the atomic access of clone, drop or get_mut and its return
MidOperation(t) == th[t].pc \in {"clone", "drop", "get_mut"}

\* the step of thread t that ends the operation it is in
Finish(t) ==
    \/ CloneAbort(t)
    \/ CloneReturn(t, NextHandle)
    \/ DropFree(t)
    \/ DropReturn(t)
    \/ GetMutSome(t)
    \/ GetMutNone(t)

\* C12: every operation is non-blocking.  new, deref and ref_count are one step;
\* clone, drop and get_mut are an atomic access and one more step of the same
\* thread: whatever state the other threads are in, that step is enabled, and it
\* ends the operation (it returns, or aborts the process); so a thread inside an
\* operation is never stopped by another thread and no state deadlocks with an
\* operation in progress.
C12_NonBlocking ==
    [](\A t \in Threads :
        (MidOperation(t) /\ ~aborted) =>
            /\ ENABLED Finish(t)
            /\ ~ENABLED (Finish(t) /\ ~aborted' /\ MidOperation(t)'))

\* both threads are inside an operation on the same record, one of them a drop
\* that is not the last
C12_Witness ==
    \E t, u \in Threads :
        /\ t # u
        /\ ~aborted
        /\ th[t].pc = "drop" /\ th[t].val > 1
        /\ MidOperation(u)
        /\ RecOf(th[u].h) = RecOf(th[t].h)

\* ------------------------------------------------------------- memory ordering
\* The orderings the code asks for (arc.rs: Relaxed at 62 and 92, Release at 107,
\* fence(Acquire) at 72 and 109), as the happens-before relation they build.  A
\* payload access through handle h is known to a thread when it happens-before
\* the thread's current point; a Release operation on the counter publishes
\* what its thread knows; every modification of the counter is a read-modify-
\* write, so each continues the release sequences before it; a fence(Acquire)
\* after a read of the counter makes known what the value read carries.  What
\* the program around Arc supplies is only what Rust's ownership demands: an
\* operation on &mut Arc or on the Arc by value (get_mut, drop) starts after
\* every earlier use of that same handle value.

\* a payload access (a read through deref, a write through get_mut's reference)
\* through handle h by thread t: no other thread knows it yet, no Release has
\* published it
Access(t, h) ==
    /\ unseen' = [u \in Threads |-> IF u = t THEN unseen[u] ELSE unseen[u] \cup {h}]
    /\ unpub' = unpub \cup {h}
    /\ UNCHANGED readgap

\* thread t gets exclusive use of handle value h: every use of h is known to it
Exclusive(t, h) == unseen[t] \ {h}

\* (fetch_sub(1, Relaxed): nothing is published)
ReleaseFetchSub_Relaxed(unknown) == unpub
\* fetch_sub(1, Release) by a thread to which the accesses through the handles
\* in unknown are not known: the accesses it knows are published, the others
\* stay unpublished
ReleaseFetchSub(unknown) == unpub \cap unknown

\* (no fence: the thread learns nothing from the value it read)
AcquireFence_None(t) == unseen[t]
\* fence(Acquire) after thread t's read of the counter of record r: of the
\* accesses to r's payload, only those the value read does not carry stay unknown
AcquireFence(t) ==
    unseen[t] \ ({h \in Handles : handle[h].rec = RecOf(th[t].h)} \ readgap[t])

\* once thread t has freed the record no access to its payload matters any
\* more: the bookkeeping forgets the handles of the record whose accesses the
\* final dropper knew when it destroyed the payload
Forgotten(t) == MadeHandles(RecOf(th[t].h)) \ AcquireFence(t)

HbDropFetchSub(t, h) ==
    /\ DropFetchSub(t, h)
    /\ unseen' = [unseen EXCEPT ![t] = Exclusive(t, h)]
    /\ unpub' = ReleaseFetchSub(Exclusive(t, h))
    /\ readgap' = [readgap EXCEPT ![t] = IF DropIsLast(th'[t].val)
                                         THEN unpub' \cap MadeHandles(RecOf(h))
                                         ELSE {}]

HbDropFree(t) ==
    /\ DropFree(t)
    /\ unseen' = [u \in Threads |->
                    (IF u = t THEN AcquireFence(t) ELSE unseen[u]) \ Forgotten(t)]
    /\ unpub' = unpub \ Forgotten(t)
    /\ readgap' = [readgap EXCEPT ![t] = {}]

HbDropReturn(t) ==
    /\ DropReturn(t)
    /\ readgap' = [readgap EXCEPT ![t] = {}]
    /\ UNCHANGED <<unseen, unpub>>

HbGetMutLoad(t, h) ==
    /\ GetMutLoad(t, h)
    /\ unseen' = [unseen EXCEPT ![t] = Exclusive(t, h)]
    /\ readgap' = [readgap EXCEPT ![t] = IF GetMutUnique(th'[t].val)
                                         THEN unpub \cap MadeHandles(RecOf(h))
                                         ELSE {}]
    /\ UNCHANGED unpub

HbGetMutSome(t) ==
    /\ GetMutSome(t)
    /\ unseen' = [unseen EXCEPT ![t] = AcquireFence(t)]
    /\ readgap' = [readgap EXCEPT ![t] = {}]
    /\ UNCHANGED unpub

HbGetMutNone(t) ==
    /\ GetMutNone(t)
    /\ readgap' = [readgap EXCEPT ![t] = {}]
    /\ UNCHANGED <<unseen, unpub>>

HbWriteMut(t, v) == WriteMut(t, v) /\ Access(t, th[t].h)

HbDeref(t, h) == Deref(t, h) /\ Access(t, h)

\* the operations with the happens-before bookkeeping switched on, in a program
\* that calls Arc::new once
HbNext ==
    \/ \E t \in Threads, v \in NewValues : New(t, v, NextHandle) /\ FreshRecs = Records /\ UNCHANGED hbvars
    \/ \E t \in Threads, h \in Handles : CloneFetchAdd(t, h) /\ UNCHANGED hbvars
    \/ \E t \in Threads : CloneAbort(t) /\ UNCHANGED hbvars
    \/ \E t \in Threads : CloneReturn(t, NextHandle) /\ UNCHANGED hbvars
    \/ \E t \in Threads, h \in Handles : HbDropFetchSub(t, h)
    \/ \E t \in Threads : HbDropFree(t)
    \/ \E t \in Threads : HbDropReturn(t)
    \/ \E t \in Threads, h \in Handles : HbGetMutLoad(t, h)
    \/ \E t \in Threads : HbGetMutSome(t)
    \/ \E t \in Threads : HbGetMutNone(t)
    \/ \E t \in Threads, v \in MutValues : HbWriteMut(t, v)
    \/ \E t \in Threads : ReleaseMut(t) /\ UNCHANGED hbvars
    \/ \E t \in Threads, h \in Handles : HbDeref(t, h)
    \/ \E t \in Threads : ReleaseRef(t) /\ UNCHANGED hbvars
    \/ \E t \in Threads, h \in Handles : RefCount(t, h) /\ UNCHANGED hbvars

HbSpec == Init /\ [][HbNext]_vars

\* the drop of thread t observed 1: it will fence and destroy the record
FinalDropper(t) == th[t].pc = "drop" /\ DropIsLast(th[t].val)

\* C13: release/acquire pairing of drop.  When the last drop has made its
\* fetch_sub, every access to the payload made through any handle of the record
\* has been published by the Release fetch_sub of that handle's drop, so after
\* its fence(Acquire) the final dropper knows them all: no access to the payload
\* is unordered with the destruction and the deallocation.
C13_ReleaseAcquirePairing ==
    \A t \in Threads :
        FinalDropper(t) =>
            /\ unpub \cap MadeHandles(RecOf(th[t].h)) = {}
            /\ AcquireFence(t) \cap MadeHandles(RecOf(th[t].h)) = {}

\* the final dropper has made its fetch_sub and not yet its fence: the payload
\* was written (42) and an access through another handle of the record is
\* still unknown to it
C13_Witness ==
    \E t \in Threads :
        /\ FinalDropper(t)
        /\ data[RecOf(th[t].h)] = 42
        /\ unseen[t] \cap (MadeHandles(RecOf(th[t].h)) \ {th[t].h}) # {}

\* ------------------------------------------------------------- counter range
\* the threads cloning and dropping at full load: a clone may start whenever it
\* finds a handle slot or needs none, so every thread can be past the guard at once
WrapNext ==
    \/ \E t \in Threads, v \in NewValues : New(t, v, NextHandle) /\ UNCHANGED hbvars
    \/ \E t \in Threads, h \in Handles : CloneFetchAdd(t, h) /\ UNCHANGED hbvars
    \/ \E t \in Threads, h \in Handles : CloneFetchAddTripping(t, h) /\ UNCHANGED hbvars
    \/ \E t \in Threads : CloneAbort(t) /\ UNCHANGED hbvars
    \/ \E t \in Threads : CloneReturn(t, NextHandle) /\ UNCHANGED hbvars
    \/ \E t \in Threads, h \in Handles : DropFetchSub(t, h) /\ UNCHANGED hbvars
    \/ \E t \in Threads : DropFree(t) /\ UNCHANGED hbvars
    \/ \E t \in Threads : DropReturn(t) /\ UNCHANGED hbvars
    \/ \E t \in Threads, h \in Handles : RefCount(t, h) /\ UNCHANGED hbvars

WrapSpec == Init /\ [][WrapNext]_vars

\* the clones on record r that made their fetch_add and have not returned
ClonesInFlight(r) == {t \in Threads : th[t].pc = "clone" /\ RecOf(th[t].h) = r}

\* how far usize::MAX is above the guard's threshold
HeadRoom == USIZE_MAX - USIZE_MAX \div 3

\* C14: the counter never wraps.  With fewer threads than the head-room above
\* usize::MAX / 3, on every Live record: at most usize::MAX / 3 + 1 handles are
\* live, the counter is exactly the number of live handles plus the clones in
\* flight (in the integers, with no reduction modulo 2^w), it stays below
\* usize::MAX at every fetch_add, so no clone observes usize::MAX and none turns
\* the counter to 0; the counter is not 0 while a handle is live and not 1 while
\* several are.
C14_NoWraparound ==
    (NumThreads < HeadRoom) =>
        \A r \in Records :
            alloc[r] = "Live" =>
                /\ Cardinality(LiveHandles(r)) <= USIZE_MAX \div 3 + 1
                /\ refs[r] = Cardinality(LiveHandles(r)) + Cardinality(ClonesInFlight(r))
                /\ \A t \in ClonesInFlight(r) : th[t].val < USIZE_MAX /\ WrappingAdd(th[t].val) = th[t].val + 1
                /\ LiveHandles(r) # {} => refs[r] >= 1
                /\ Cardinality(LiveHandles(r)) >= 2 => refs[r] >= 2

\* every thread is inside a clone of the same record that observed more than
\* usize::MAX / 3, and the counter stands that many above usize::MAX / 3 + 1
C14_Witness ==
    \E r \in Records :
        /\ alloc[r] = "Live"
        /\ ~aborted
        /\ ClonesInFlight(r) = Threads
        /\ \A t \in Threads : th[t].val > USIZE_MAX \div 3
        /\ refs[r] = USIZE_MAX \div 3 + 1 + NumThreads

\* ------------------------------------------------------------- frames
\* a step of deref, ref_count or get_mut by thread t, or the end of the borrow
\* deref or get_mut returned
ReadStep(t) ==
    \/ \E h \in Handles : Deref(t, h)
    \/ ReleaseRef(t)
    \/ \E h \in Handles : RefCount(t, h)
    \/ \E h \in Handles : GetMutLoad(t, h)
    \/ GetMutNone(t)

\* C15: the read-only operations keep the state.  No step of deref or get_mut
\* (the start of deref, the end of its borrow, get_mut's load, its return of Some
\* and its return of None) changes a counter, a payload, a record's Live/Freed
\* state, the destruction count, a handle or another thread; the return of None
\* only puts the caller back outside the operation; a payload changes only when
\* a record is made or freed or when the holder of get_mut's reference writes;
\* the step of ref_count changes nothing at all.
C15_ReadOnlyFrame ==
    /\ [][\A t \in Threads :
            (/\ th'[t] # th[t]
             /\ \/ th[t].pc = "idle" /\ th'[t].pc \in {"ref", "get_mut"}
                \/ th[t].pc \in {"ref", "get_mut"}) =>
                /\ UNCHANGED <<alloc, refs, destroyed, handle, aborted, data, written>>
                /\ \A u \in Threads \ {t} : th'[u] = th[u]
                /\ (th[t].pc = "get_mut" /\ th[t].val # 1) => th'[t] = Idle]_vars
    /\ [][\A r \in Records :
            (data'[r] # data[r] /\ alloc[r] = "Live" /\ alloc'[r] = "Live") =>
                /\ \E t \in Threads : th[t].pc = "mut" /\ RecOf(th[t].h) = r
                /\ UNCHANGED <<alloc, refs, destroyed, handle, aborted>>]_vars
    /\ [](\A t \in Threads :
            ~ENABLED ((\E h \in Handles : RefCount(t, h)) /\ vars' # vars))

\* a get_mut that loaded 2 is about to return None while the other thread holds
\* the reference deref gave it to the same record, whose counter is still 2
C15_Witness ==
    \E t, u \in Threads :
        /\ th[t].pc = "get_mut" /\ th[t].val = 2
        /\ th[u].pc = "ref"
        /\ RecOf(th[u].h) = RecOf(th[t].h)
        /\ refs[RecOf(th[t].h)] = 2
        /\ Cardinality(LiveHandles(RecOf(th[t].h))) = 2

\* the counters, payloads and states of the records other than r stay as they are
OthersKept(r) ==
    \A q \in Records \ {r} :
        /\ alloc'[q] = alloc[q]
        /\ refs'[q] = refs[q]
        /\ data'[q] = data[q]
        /\ destroyed'[q] = destroyed[q]

\* C16: clone and a drop that is not the last change only the counter of their
\* handle's record.  The fetch_add of a clone raises that counter by exactly 1
\* and changes nothing else; the return of a clone makes one handle, to the same
\* record, and no record; the fetch_sub of a drop that observes more than 1
\* lowers the counter by exactly 1, takes its own handle away and leaves the
\* record Live with its payload; its return changes nothing; no other record's
\* counter, payload or state changes.
C16_CloneDropFrame ==
    /\ [][\A t \in Threads :
            (th[t].pc = "idle" /\ th'[t].pc = "clone") =>
                /\ refs'[RecOf(th'[t].h)] = refs[RecOf(th'[t].h)] + 1
                /\ OthersKept(RecOf(th'[t].h))
                /\ UNCHANGED <<alloc, data, destroyed, handle, aborted>>]_vars
    /\ [][\A t \in Threads :
            (th[t].pc = "clone" /\ th'[t] # th[t]) =>
                /\ \E hn \in Handles :
                      /\ handle[hn].st = "none"
                      /\ handle' = [handle EXCEPT ![hn] =
                                       [st |-> "live", rec |-> RecOf(th[t].h)]]
                /\ alloc[RecOf(th[t].h)] = "Live"
                /\ UNCHANGED <<alloc, refs, data, destroyed, aborted>>]_vars
    /\ [][\A t \in Threads :
            (th[t].pc = "idle" /\ th'[t].pc = "drop" /\ th'[t].val > 1) =>
                /\ refs'[RecOf(th'[t].h)] = refs[RecOf(th'[t].h)] - 1
                /\ OthersKept(RecOf(th'[t].h))
                /\ alloc[RecOf(th'[t].h)] = "Live"
                /\ handle' = [handle EXCEPT ![th'[t].h].st = "gone"]
                /\ UNCHANGED <<alloc, data, destroyed, aborted>>]_vars
    /\ [][\A t \in Threads :
            (th[t].pc = "drop" /\ th[t].val > 1 /\ th'[t] # th[t]) =>
                UNCHANGED <<alloc, refs, data, destroyed, handle, aborted>>]_vars

\* two records are Live; a clone of a handle to the second has raised its
\* counter to 2 while a drop on the first observed 2 and left it at 1
C16_Witness ==
    \E t, u \in Threads :
        /\ th[t].pc = "clone" /\ th[t].val = 1
        /\ th[u].pc = "drop" /\ th[u].val = 2
        /\ RecOf(th[t].h) # RecOf(th[u].h)
        /\ refs[RecOf(th[t].h)] = 2 /\ alloc[RecOf(th[t].h)] = "Live"
        /\ refs[RecOf(th[u].h)] = 1 /\ alloc[RecOf(th[u].h)] = "Live"
        /\ data[RecOf(th[t].h)] # data[RecOf(th[u].h)]

====
